---------------------------- MODULE Spec2Model ----------------------------
(***************************************************************************)
(* The two Jira batch-creation scripts, scripts/create_jira_issues.py      *)
(* (REST API v3, no project probe) and scripts/create_jira_issues_v2.py    *)
(* (REST API v2, with a project probe), as one state machine.              *)
(*                                                                         *)
(* A run is one execution of main().  The process environment and the      *)
(* remote service are the program's surroundings: the environment is       *)
(* chosen in Init, the service answers every request with one of the       *)
(* three outcomes urllib distinguishes (a 2xx response, error.HTTPError,   *)
(* error.URLError); a 2xx answer to a creation POST carries key and id,   *)
(* as the service's API does.  An exception no handler catches ends the    *)
(* process with status 1.  Strings are sequences of tokens; a base URL is  *)
(* an origin token followed by path characters.  A blocking urlopen call   *)
(* is two steps: the request leaves, its outcome arrives.                  *)
(***************************************************************************)
EXTENDS Integers, Sequences, FiniteSets, TLC

VARIABLES
    script,       \* which of the two scripts runs: "v1" or "v2"
    env,          \* os.environ: JIRA_URL, JIRA_EMAIL, JIRA_API_TOKEN
    run,          \* ordinal of the current execution of main()
    pc,           \* position of the single thread inside main()
    jira_url,     \* local jira_url after rstrip("/")
    auth_header,  \* local auth_header
    missing,      \* local list missing
    project_ok,   \* <<>> until check_project_exists returned, then <<value>>
    i,            \* 1-based position of the for loop over ISSUES, 0 before it
    result,       \* local result of the last create_issue call
    probe_resp,   \* the outcome urlopen had for this run's probe GET
    last_resp,    \* the outcome urlopen had for this run's latest POST
    created,      \* local accumulator created
    failed,       \* local accumulator failed
    stdout_urls,  \* the browse URLs printed so far in this run
    exit_status,  \* <<>> while running, <<code>> once the process has ended
    crashed,      \* TRUE when the process ended by an uncaught exception
    requests,     \* the HTTP requests issued in this run, in order
    answers,      \* per POST of this run: was it accepted, and with which key and id
    service,      \* the remote service: the number of issues it holds
    posts_total,  \* creation POSTs issued by all runs so far
    summaries,    \* runs so far that reached the final summary report
    call_issue,   \* argument issue_data of a create_issue call made on its own
    call_payload  \* <<>> until that call has built its request body, then <<body>>

vars == <<script, env, run, pc, jira_url, auth_header, missing, project_ok, i,
          result, probe_resp, last_resp, created, failed, stdout_urls, exit_status, crashed,
          requests, answers, service, posts_total, summaries, call_issue, call_payload>>

\* the variables of a create_issue call made on its own
call == <<call_issue, call_payload>>

-----------------------------------------------------------------------------
(* Bounds of the model *)

\* number of path characters a configured base URL may carry after its origin
MaxUrlLen == 2

\* number of consecutive executions of the script against the same service
MaxRuns == 2

\* number of labels an issue handed to create_issue on its own may carry
MaxLabels == 2

-----------------------------------------------------------------------------
(* Strings *)

Last(s) == s[Len(s)]

Front(s) == SubSeq(s, 1, Len(s) - 1)

IsPrefix(p, s) == Len(p) <= Len(s) /\ SubSeq(s, 1, Len(p)) = p

IsSuffix(p, s) == Len(p) <= Len(s) /\ SubSeq(s, Len(s) - Len(p) + 1, Len(s)) = p

IsInfix(p, s) ==
    \E k \in 0..(Len(s) - Len(p)) : SubSeq(s, k + 1, k + Len(p)) = p

DigitChars == <<"0", "1", "2", "3", "4", "5", "6", "7", "8", "9">>

\* str(n) of a non-negative integer, as the f-strings format e.code
RECURSIVE DecimalStr(_)
DecimalStr(n) ==
    IF n < 10 THEN <<DigitChars[n + 1]>>
    ELSE DecimalStr(n \div 10) \o <<DigitChars[(n % 10) + 1]>>

\* a normalization that leaves the configured value as it is
rstrip_keep(s, c) == s

\* s.rstrip(c): every trailing occurrence of c is removed
RECURSIVE rstrip(_, _)
rstrip(s, c) ==
    IF s # <<>> /\ Last(s) = c THEN rstrip(Front(s), c) ELSE s

-----------------------------------------------------------------------------
(* Static data *)

PROJECT_KEY == <<"B", "B">>

Labels1 == <<"testing", "e2e", "playwright">>
Labels2 == <<"testing", "e2e", "mocking">>
Labels3 == <<"testing", "e2e", "ci-cd", "github-actions">>
Labels4 == <<"testing", "e2e", "jira-integration">>
Labels5 == <<"testing", "e2e", "visual-regression">>
Labels6 == <<"testing", "e2e", "responsive", "mobile">>

Template(s, d, l) ==
    [summary |-> s, description |-> d, issuetype |-> "Task", labels |-> l]

\* ISSUES of create_jira_issues.py
ISSUES_v1 == <<
    Template("Set up Playwright E2E testing infrastructure", "v1-description-1", Labels1),
    Template("Set up Forge bridge mocking for E2E tests", "v1-description-2", Labels2),
    Template("Add CI/CD pipeline integration for E2E tests", "v1-description-3", Labels3),
    Template("Create Jira integration E2E tests", "v1-description-4", Labels4),
    Template("Add visual regression testing", "v1-description-5", Labels5),
    Template("Add mobile and tablet viewport E2E tests", "v1-description-6", Labels6) >>

\* ISSUES of create_jira_issues_v2.py
ISSUES_v2 == <<
    Template("Set up Playwright E2E testing infrastructure", "v2-description-1", Labels1),
    Template("Set up Forge bridge mocking for E2E tests", "v2-description-2", Labels2),
    Template("Add CI/CD pipeline integration for E2E tests", "v2-description-3", Labels3),
    Template("Create Jira integration E2E tests", "v2-description-4", Labels4),
    Template("Add visual regression testing", "v2-description-5", Labels5),
    Template("Add mobile and tablet viewport E2E tests", "v2-description-6", Labels6) >>

ISSUES == IF script = "v1" THEN ISSUES_v1 ELSE ISSUES_v2

-----------------------------------------------------------------------------
(* The surroundings: environment values and the service's answers *)

Unset == [set |-> FALSE, val |-> <<>>]

Value(s) == [set |-> TRUE, val |-> s]

Origin == "https://x.atlassian.net"

PathChars == {"/", "a"}

PathStrings == UNION {[1..k -> PathChars] : k \in 0..MaxUrlLen}

\* JIRA_URL is unset, empty, or an absolute URL
UrlValues == {Unset, Value(<<>>)} \cup {Value(<<Origin>> \o p) : p \in PathStrings}

EmailValues == {Unset, Value(<<>>), Value(<<"a@b.com">>)}

TokenValues == {Unset, Value(<<>>), Value(<<"tok123">>)}

BadRequestBody == <<"{", "errorMessages", ":", "[", "bad request", "]", "}">>

TransportReasons == {"dns", "refused", "timeout"}

NoKey == <<>>

\* the outcomes of request.urlopen: a response, HTTPError, URLError
OkResponse(k, n) ==
    [kind |-> "ok", key |-> k, id |-> n, code |-> 0, body |-> <<>>, reason |-> ""]

HttpError(c, b) ==
    [kind |-> "http", key |-> NoKey, id |-> 0, code |-> c, body |-> b, reason |-> ""]

UrlError(r) ==
    [kind |-> "url", key |-> NoKey, id |-> 0, code |-> 0, body |-> <<>>, reason |-> r]

NoResponse ==
    [kind |-> "none", key |-> NoKey, id |-> 0, code |-> 0, body |-> <<>>, reason |-> ""]

\* the error statuses the service answers with: a rejection with a JSON body, an
\* outage with an empty body
HttpErrors == {HttpError(400, BadRequestBody), HttpError(503, <<>>)}

FailureOutcomes == HttpErrors \cup {UrlError(r) : r \in TransportReasons}

\* the key and id the service gives to its n-th issue
ServiceKey(n) == <<"B", "B", "-">> \o DecimalStr(n)

ServiceId(n) == 10000 + n

-----------------------------------------------------------------------------
(* The functions of the scripts *)

\* `not value` for a value read with os.environ.get
Falsy(v) == ~v.set \/ v.val = <<>>

\* a check that forgets the API token
MissingVars_notoken(e) ==
    (IF Falsy(e.JIRA_URL) THEN <<"JIRA_URL">> ELSE <<>>)
        \o (IF Falsy(e.JIRA_EMAIL) THEN <<"JIRA_EMAIL">> ELSE <<>>)

\* the list `missing` built by main()
MissingVars(e) ==
    (IF Falsy(e.JIRA_URL) THEN <<"JIRA_URL">> ELSE <<>>)
        \o (IF Falsy(e.JIRA_EMAIL) THEN <<"JIRA_EMAIL">> ELSE <<>>)
        \o (IF Falsy(e.JIRA_API_TOKEN) THEN <<"JIRA_API_TOKEN">> ELSE <<>>)

\* get_auth_header: "Basic " followed by the encoding of email:api_token; the
\* Base64 text is kept as the pair it encodes
get_auth_header(email, api_token) ==
    [scheme |-> "Basic", credentials |-> email \o <<":">> \o api_token]

NoHeader == [scheme |-> "", credentials |-> <<>>]

\* the REST API version each script addresses its creation POST to
ApiVersion == IF script = "v1" THEN "3" ELSE "2"

\* url of create_issue
IssueUrl(base) == base \o <<"/", "rest", "/", "api", "/", ApiVersion, "/", "issue">>

\* url of check_project_exists
ProjectUrl(base, project_key) ==
    base \o <<"/", "rest", "/", "api", "/", "2", "/", "project", "/">> \o project_key

\* the browse URL printed for a created issue
BrowseUrl(base, key) == base \o <<"/", "browse", "/">> \o key

\* description field of the payload: an ADF document in v1, the plain text in v2
DescriptionField(issue_data) ==
    IF script = "v1"
    THEN [type |-> "doc", version |-> 1,
          content |-> <<[type |-> "paragraph",
                         content |-> <<[type |-> "text",
                                        text |-> issue_data.description]>>]>>]
    ELSE issue_data.description

\* issue_data.get("issuetype", "Task")
IssueTypeName(issue_data) ==
    IF "issuetype" \in DOMAIN issue_data THEN issue_data.issuetype ELSE "Task"

\* a body that always carries a labels field
Payload_alwayslabels(project_key, data) ==
    [project |-> project_key,
     summary |-> data.summary,
     description |-> DescriptionField(data),
     issuetype |-> IssueTypeName(data),
     has_labels |-> TRUE,
     labels |-> IF "labels" \in DOMAIN data THEN data.labels ELSE <<>>]

\* payload["fields"] of create_issue; has_labels tells whether the key labels is set
Payload(project_key, issue_data) ==
    [project |-> project_key,
     summary |-> issue_data.summary,
     description |-> DescriptionField(issue_data),
     issuetype |-> IssueTypeName(issue_data),
     has_labels |-> "labels" \in DOMAIN issue_data,
     labels |-> IF "labels" \in DOMAIN issue_data THEN issue_data.labels ELSE <<>>]

\* the request create_issue hands to urlopen; body holds the one JSON payload
PostRequest(base, auth, project_key, issue_data, n) ==
    [method |-> "POST", url |-> IssueUrl(base), auth |-> auth, tmpl |-> n,
     body |-> <<Payload(project_key, issue_data)>>]

\* the request check_project_exists hands to urlopen; it has no body
GetRequest(base, auth, project_key) ==
    [method |-> "GET", url |-> ProjectUrl(base, project_key), auth |-> auth, tmpl |-> 0,
     body |-> <<>>]

NoResult == [success |-> FALSE, key |-> NoKey, id |-> 0, error |-> <<>>]

Returned(d) == [raised |-> FALSE, value |-> d]

Success(resp) == [success |-> TRUE, key |-> resp.key, id |-> resp.id, error |-> <<>>]

Failure(detail) == [success |-> FALSE, key |-> NoKey, id |-> 0, error |-> detail]

\* a handler that keeps the status code of an HTTP error and drops its body
create_issue_result_nobody(resp) ==
    CASE resp.kind = "ok" -> Returned(Success(resp))
      [] resp.kind = "http" -> Returned(Failure(DecimalStr(resp.code)))
      [] OTHER -> Returned(Failure(<<resp.reason>>))

\* the try block of create_issue: what the call does for each outcome of urlopen.
\* A response is parsed and gives the success dict; HTTPError gives the failure
\* dict "<code>: <body>"; URLError gives the failure dict str(e.reason)
create_issue_result(resp) ==
    CASE resp.kind = "ok" -> Returned(Success(resp))
      [] resp.kind = "http" ->
            Returned(Failure(DecimalStr(resp.code) \o <<":", " ">> \o resp.body))
      [] OTHER -> Returned(Failure(<<resp.reason>>))

\* the try block of check_project_exists: True on a response, False on HTTPError;
\* URLError is not caught and leaves the function as an exception
check_project_exists(resp) ==
    CASE resp.kind = "ok" -> [raised |-> FALSE, value |-> TRUE]
      [] resp.kind = "http" -> [raised |-> FALSE, value |-> FALSE]
      [] OTHER -> [raised |-> TRUE, value |-> FALSE]

-----------------------------------------------------------------------------
(* The state machine *)

Init ==
    /\ script \in {"v1", "v2"}
    /\ env \in [JIRA_URL : UrlValues, JIRA_EMAIL : EmailValues, JIRA_API_TOKEN : TokenValues]
    /\ run = 1
    /\ pc = "start"
    /\ jira_url = <<>>
    /\ auth_header = NoHeader
    /\ missing = <<>>
    /\ project_ok = <<>>
    /\ i = 0
    /\ result = NoResult
    /\ probe_resp = NoResponse
    /\ last_resp = NoResponse
    /\ created = <<>>
    /\ failed = <<>>
    /\ stdout_urls = <<>>
    /\ exit_status = <<>>
    /\ crashed = FALSE
    /\ requests = <<>>
    /\ answers = <<>>
    /\ service = 0
    /\ posts_total = 0
    /\ summaries = 0
    /\ call_issue = ISSUES_v1[1]
    /\ call_payload = <<>>

\* sys.exit(code)
Exit(code) ==
    /\ pc' = "exited"
    /\ exit_status' = <<code>>
    /\ crashed' = FALSE

\* an exception nothing catches: the interpreter prints the traceback and the
\* process ends with status 1
Crash ==
    /\ pc' = "exited"
    /\ exit_status' = <<1>>
    /\ crashed' = TRUE

\* a main() that goes straight to the batch
AfterConfig_noprobe == "loop"

\* where main() goes once the configuration is complete
AfterConfig == IF script = "v2" THEN "check_project" ELSE "loop"

\* main(): read the environment, check it, normalize the URL, build the header
ReadConfig ==
    /\ pc = "start"
    /\ UNCHANGED call
    /\ missing' = MissingVars(env)
    /\ IF MissingVars(env) # <<>>
       THEN /\ Exit(1)
            /\ UNCHANGED <<jira_url, auth_header, i>>
       ELSE /\ jira_url' = rstrip(env.JIRA_URL.val, "/")
            /\ auth_header' = get_auth_header(env.JIRA_EMAIL.val, env.JIRA_API_TOKEN.val)
            /\ pc' = AfterConfig
            /\ i' = IF AfterConfig = "loop" THEN 1 ELSE 0
            /\ UNCHANGED <<exit_status, crashed>>
    /\ UNCHANGED <<script, env, run, project_ok, result, probe_resp, last_resp,
                   created, failed, stdout_urls, requests, answers, service,
                   posts_total, summaries>>

\* check_project_exists up to urlopen: the probe GET leaves
SendProbe ==
    /\ pc = "check_project"
    /\ UNCHANGED call
    /\ requests' = Append(requests, GetRequest(jira_url, auth_header, PROJECT_KEY))
    /\ pc' = "await_probe"
    /\ UNCHANGED <<script, env, run, jira_url, auth_header, missing, project_ok, i,
                   result, probe_resp, last_resp, created, failed, stdout_urls,
                   exit_status, crashed, answers, service, posts_total, summaries>>

\* the probe's outcome arrives; main() goes on, exits, or the exception escapes
RecvProbe(resp) ==
    /\ pc = "await_probe"
    /\ UNCHANGED call
    /\ probe_resp' = resp
    /\ LET r == check_project_exists(resp) IN
       IF r.raised
       THEN /\ Crash
            /\ UNCHANGED <<project_ok, i>>
       ELSE /\ project_ok' = <<r.value>>
            /\ IF r.value
               THEN /\ pc' = "loop"
                    /\ i' = 1
                    /\ UNCHANGED <<exit_status, crashed>>
               ELSE /\ Exit(1)
                    /\ UNCHANGED i
    /\ UNCHANGED <<script, env, run, jira_url, auth_header, missing, result, last_resp,
                   created, failed, stdout_urls, requests, answers, service,
                   posts_total, summaries>>

\* a loop that skips the batch when an earlier run already reported one
LoopItems_ledger == IF summaries > 0 THEN <<>> ELSE ISSUES

\* the list the for loop of main() iterates
LoopItems == ISSUES

\* a loop that stays on a template until its creation succeeds
NextIndex_retry(n, res) == IF res.success THEN n + 1 ELSE n

\* a loop that gives the batch up at the first failure
NextIndex_abort(n, res) == IF res.success THEN n + 1 ELSE Len(LoopItems) + 1

\* the for loop moves to the next template whatever the result was
NextIndex(n, res) == n + 1

\* an entry that reports the issue under the service's internal id
CreatedEntry_id(res, issue) ==
    IF script = "v1" THEN DecimalStr(res.id)
    ELSE [key |-> DecimalStr(res.id), summary |-> issue.summary,
          url |-> BrowseUrl(jira_url, DecimalStr(res.id))]

\* what main() appends to created: the key in v1, a key/summary/url dict in v2
CreatedEntry(res, issue) ==
    IF script = "v1" THEN res.key
    ELSE [key |-> res.key, summary |-> issue.summary,
          url |-> BrowseUrl(jira_url, res.key)]

CreatedKey(c) == IF script = "v1" THEN c ELSE c.key

\* the URL the summary prints for an entry of created
CreatedUrl(c) == IF script = "v1" THEN BrowseUrl(jira_url, c) ELSE c.url

\* the URLs the summary prints, one per entry of created, in order
SummaryUrls(cs) == [k \in 1..Len(cs) |-> CreatedUrl(cs[k])]

\* a summary that always reports success
FinalStatus_zero(fs) == 0

\* the status main() ends with after the summary: sys.exit(1) if failed, else 0
FinalStatus(fs) == IF fs # <<>> THEN 1 ELSE 0

\* create_issue up to urlopen: the creation POST for template i leaves
SendCreate ==
    /\ pc = "loop"
    /\ UNCHANGED call
    /\ i <= Len(LoopItems)
    /\ requests' = Append(requests,
                          PostRequest(jira_url, auth_header, PROJECT_KEY, LoopItems[i], i))
    /\ posts_total' = posts_total + 1
    /\ pc' = "await_create"
    /\ UNCHANGED <<script, env, run, jira_url, auth_header, missing, project_ok, i,
                   result, probe_resp, last_resp, created, failed, stdout_urls,
                   exit_status, crashed, answers, service, summaries>>

\* the answers the service can give to a creation POST
CreateOutcomes ==
    {OkResponse(ServiceKey(service + 1), ServiceId(service + 1))} \cup FailureOutcomes

\* the POST's outcome arrives: create_issue returns, main() records the result
RecvCreate(resp) ==
    /\ pc = "await_create"
    /\ UNCHANGED call
    /\ last_resp' = resp
    /\ answers' = Append(answers, [tmpl |-> i, ok |-> resp.kind = "ok", key |-> resp.key,
                                    id |-> resp.id])
    /\ service' = IF resp.kind = "ok" THEN service + 1 ELSE service
    /\ LET r == create_issue_result(resp)
           res == r.value
       IN  IF r.raised
           THEN /\ Crash
                /\ UNCHANGED <<result, created, failed, stdout_urls, i>>
           ELSE /\ result' = res
                /\ IF res.success
                   THEN /\ created' = Append(created, CreatedEntry(res, LoopItems[i]))
                        /\ stdout_urls' =
                              IF script = "v1"
                              THEN Append(stdout_urls, BrowseUrl(jira_url, res.key))
                              ELSE stdout_urls
                        /\ UNCHANGED failed
                   ELSE /\ failed' = Append(failed, LoopItems[i].summary)
                        /\ UNCHANGED <<created, stdout_urls>>
                /\ i' = NextIndex(i, res)
                /\ pc' = "loop"
                /\ UNCHANGED <<exit_status, crashed>>
    /\ UNCHANGED <<script, env, run, jira_url, auth_header, missing, project_ok,
                   probe_resp, requests, posts_total, summaries>>

\* the list is exhausted: the summary is printed and the process ends
Summary ==
    /\ pc = "loop"
    /\ UNCHANGED call
    /\ i > Len(LoopItems)
    /\ summaries' = summaries + 1
    /\ stdout_urls' = stdout_urls \o SummaryUrls(created)
    /\ Exit(FinalStatus(failed))
    /\ UNCHANGED <<script, env, run, jira_url, auth_header, missing, project_ok, i,
                   result, probe_resp, last_resp, created, failed, requests, answers,
                   service, posts_total>>

\* the operator starts the script again, in the same environment
Rerun ==
    /\ pc = "exited"
    /\ UNCHANGED call
    /\ run < MaxRuns
    /\ run' = run + 1
    /\ pc' = "start"
    /\ jira_url' = <<>>
    /\ auth_header' = NoHeader
    /\ missing' = <<>>
    /\ project_ok' = <<>>
    /\ i' = 0
    /\ result' = NoResult
    /\ probe_resp' = NoResponse
    /\ last_resp' = NoResponse
    /\ created' = <<>>
    /\ failed' = <<>>
    /\ stdout_urls' = <<>>
    /\ exit_status' = <<>>
    /\ crashed' = FALSE
    /\ requests' = <<>>
    /\ answers' = <<>>
    /\ UNCHANGED <<script, env, service, posts_total, summaries>>

ProbeOutcomes == {OkResponse(NoKey, 0)} \cup FailureOutcomes

Next ==
    \/ ReadConfig
    \/ SendProbe
    \/ \E resp \in ProbeOutcomes : RecvProbe(resp)
    \/ SendCreate
    \/ \E resp \in CreateOutcomes : RecvCreate(resp)
    \/ Summary
    \/ Rerun

Spec == Init /\ [][Next]_vars

-----------------------------------------------------------------------------
(* create_issue called on its own, up to the request body it builds *)

LabelChars == {"testing", "e2e"}

LabelLists == UNION {[1..k -> LabelChars] : k \in 0..MaxLabels}

\* the dicts create_issue may be handed: summary and description always, issuetype
\* and labels each present or not, labels possibly the empty list
IssueInputs ==
    LET core == [summary : {"s1", "s2"}, description : {"d1"}] IN
    core
      \cup {[summary |-> c.summary, description |-> c.description, issuetype |-> t] :
              c \in core, t \in {"Task", "Bug"}}
      \cup {[summary |-> c.summary, description |-> c.description, labels |-> l] :
              c \in core, l \in LabelLists}
      \cup {[summary |-> c.summary, description |-> c.description, issuetype |-> t,
             labels |-> l] : c \in core, t \in {"Task", "Bug"}, l \in LabelLists}

PayloadInit ==
    /\ script \in {"v1", "v2"}
    /\ env = [JIRA_URL |-> Value(<<Origin>>), JIRA_EMAIL |-> Value(<<"a@b.com">>),
              JIRA_API_TOKEN |-> Value(<<"tok123">>)]
    /\ run = 1
    /\ pc = "create_issue"
    /\ jira_url = <<Origin>>
    /\ auth_header = get_auth_header(<<"a@b.com">>, <<"tok123">>)
    /\ missing = <<>>
    /\ project_ok = <<>>
    /\ i = 0
    /\ result = NoResult
    /\ probe_resp = NoResponse
    /\ last_resp = NoResponse
    /\ created = <<>>
    /\ failed = <<>>
    /\ stdout_urls = <<>>
    /\ exit_status = <<>>
    /\ crashed = FALSE
    /\ requests = <<>>
    /\ answers = <<>>
    /\ service = 0
    /\ posts_total = 0
    /\ summaries = 0
    /\ call_issue \in IssueInputs
    /\ call_payload = <<>>

\* create_issue builds its payload from the issue it is handed
BuildPayload ==
    /\ pc = "create_issue"
    /\ call_payload = <<>>
    /\ call_payload' = <<Payload(PROJECT_KEY, call_issue)>>
    /\ UNCHANGED <<script, env, run, pc, jira_url, auth_header, missing, project_ok, i,
                   result, probe_resp, last_resp, created, failed, stdout_urls,
                   exit_status, crashed, requests, answers, service, posts_total,
                   summaries, call_issue>>

PayloadNext == BuildPayload

PayloadSpec == PayloadInit /\ [][PayloadNext]_vars

TypeOK ==
    /\ script \in {"v1", "v2"}
    /\ pc \in {"start", "check_project", "await_probe", "loop", "await_create", "exited"}
    /\ run \in 1..MaxRuns
    /\ i \in 0..(Len(ISSUES) + 1)
    /\ exit_status \in {<<>>, <<0>>, <<1>>}
    /\ (pc = "exited") = (exit_status # <<>>)

-----------------------------------------------------------------------------
(* Vocabulary of the properties *)

ConfigNames == {"JIRA_URL", "JIRA_EMAIL", "JIRA_API_TOKEN"}

\* some configuration value is unset or empty
ConfigAbsent == \E v \in ConfigNames : ~env[v].set \/ env[v].val = <<>>

Exited == pc = "exited"

Gets == SelectSeq(requests, LAMBDA r : r.method = "GET")

Posts == SelectSeq(requests, LAMBDA r : r.method = "POST")

\* the run has entered the for loop over the templates
ReachedLoop == i >= 1

NumIssues == Len(ISSUES)

\* the configured base URL without its trailing slashes, said without rstrip:
\* the prefix that does not end in a slash and is followed by slashes only
NormalizedBase ==
    LET u == env.JIRA_URL.val IN
    CHOOSE b \in {SubSeq(u, 1, k) : k \in 0..Len(u)} :
        /\ b = <<>> \/ Last(b) # "/"
        /\ \A k \in (Len(b) + 1)..Len(u) : u[k] = "/"

\* the templates whose POST was rejected or failed at transport level
RejectedSet == {k \in 1..Len(answers) : ~answers[k].ok}

\* the indices 1..n in increasing order
Indices(n) == [k \in 1..n |-> k]

-----------------------------------------------------------------------------
(* C1: when JIRA_URL, JIRA_EMAIL or JIRA_API_TOKEN is unset or empty, main()    *)
(* only ever goes from its start to its exit: the process ends with status 1,  *)
(* by sys.exit and not by an exception, and no HTTP request, probe GET or      *)
(* creation POST, is issued in any run.                                        *)
MissingConfigExitsWithoutRequest ==
    ConfigAbsent =>
        /\ requests = <<>>
        /\ posts_total = 0
        /\ pc \in {"start", "exited"}
        /\ Exited => exit_status = <<1>> /\ ~crashed /\ missing # <<>>

\* only the API token is absent, and the process has ended
MissingTokenExited ==
    /\ Exited
    /\ ~env.JIRA_API_TOKEN.set
    /\ env.JIRA_URL.val # <<>>
    /\ env.JIRA_EMAIL.val # <<>>
    /\ missing = <<"JIRA_API_TOKEN">>

(* C2: when the process has ended, its exit status is 0 or 1, and it is 0      *)
(* exactly when the three configuration values are present, the probe (v2      *)
(* only) returned True, and the service accepted the creation of every one of  *)
(* the six templates.                                                          *)
ExitCodeZeroIffAllSucceeded ==
    Exited =>
        /\ exit_status \in {<<0>>, <<1>>}
        /\ (exit_status = <<0>>) <=>
              /\ ~ConfigAbsent
              /\ script = "v2" => project_ok = <<TRUE>>
              /\ {answers[k].tmpl : k \in {n \in 1..Len(answers) : answers[n].ok}}
                    = 1..NumIssues

\* a v2 run ended with status 0 after six accepted creations
ExitZeroAfterSixCreated ==
    /\ Exited
    /\ script = "v2"
    /\ exit_status = <<0>>
    /\ project_ok = <<TRUE>>
    /\ Len(answers) = NumIssues
    /\ service >= NumIssues

(* C3: check_project_exists returns True only on a 2xx response and returns    *)
(* False for every other outcome of the probe, HTTP error status and transport *)
(* failure alike: once the probe is answered, main() holds its boolean result. *)
ProbeReturnsFalseOnEveryFailure ==
    probe_resp.kind # "none" =>
        /\ project_ok = <<probe_resp.kind = "ok">>
        /\ ~crashed

(* C4: create_issue returns a failure result for an HTTP error, whose detail   *)
(* holds the decimal status code and the raw body, and for a transport         *)
(* failure, whose detail is the error's description; in both cases it returns  *)
(* to main(), which goes on with the loop, and no exception ends the process.  *)
CreateIssueCapturesFailure ==
    last_resp.kind \in {"http", "url"} =>
        /\ ~crashed
        /\ ~result.success
        /\ last_resp.kind = "http" =>
              /\ IsPrefix(DecimalStr(last_resp.code), result.error)
              /\ IsSuffix(last_resp.body, result.error)
              /\ Len(result.error) > Len(DecimalStr(last_resp.code)) + Len(last_resp.body)
        /\ last_resp.kind = "url" => result.error = <<last_resp.reason>>

\* a POST answered 400 with the body "bad request", back in main()
BadRequestCaptured ==
    /\ pc = "loop"
    /\ last_resp.kind = "http"
    /\ last_resp.code = 400
    /\ IsInfix(<<"bad request">>, last_resp.body)
    /\ IsInfix(<<"4", "0", "0">>, result.error)
    /\ IsInfix(<<"bad request">>, result.error)

(* C5: a failed creation does not stop the batch.  When a run that entered the *)
(* loop has ended, all six templates were attempted in list order; with F the  *)
(* templates whose POST was rejected or failed at transport level, failed      *)
(* holds the summaries of the templates in F and created holds the 6 - |F|     *)
(* templates outside F, under the keys the service gave them, both in list     *)
(* order.                                                                      *)
FailureDoesNotStopBatch ==
    (Exited /\ ReachedLoop) =>
        LET rejected == SelectSeq(Indices(NumIssues), LAMBDA k : k \in RejectedSet)
            accepted == SelectSeq(Indices(NumIssues), LAMBDA k : k \notin RejectedSet)
        IN  /\ summaries >= 1
            /\ Len(answers) = NumIssues
            /\ \A k \in 1..NumIssues : answers[k].tmpl = k
            /\ Len(failed) = Cardinality(RejectedSet)
            /\ Len(created) = NumIssues - Cardinality(RejectedSet)
            /\ failed = [k \in 1..Len(rejected) |-> ISSUES[rejected[k]].summary]
            /\ [k \in 1..Len(created) |-> CreatedKey(created[k])]
                  = [k \in 1..Len(accepted) |-> answers[accepted[k]].key]
            /\ script = "v2" =>
                  [k \in 1..Len(created) |-> created[k].summary]
                     = [k \in 1..Len(accepted) |-> ISSUES[accepted[k]].summary]

\* the third template alone was rejected: 5 created, 1 failed
ThirdRejectedFiveCreated ==
    /\ Exited
    /\ RejectedSet = {3}
    /\ Len(created) = 5
    /\ failed = <<ISSUES[3].summary>>
    /\ exit_status = <<1>>

(* C6: the creation POSTs of a run are those of templates 1, 2, ... in the     *)
(* order of ISSUES, each template once and none again after a failure; a POST  *)
(* leaves only when every earlier POST has returned its result, so at most one *)
(* is outstanding; and a run that entered the loop ends with exactly six.      *)
OnePostPerTemplateInOrder ==
    /\ \A k \in 1..Len(Posts) :
          /\ Posts[k].tmpl = k
          /\ k <= NumIssues
          /\ Posts[k].body[1].summary = ISSUES[k].summary
    /\ Len(Posts) = Len(answers) + (IF pc = "await_create" THEN 1 ELSE 0)
    /\ Len(answers) = Len(created) + Len(failed)
    /\ (Exited /\ ReachedLoop) => Len(Posts) = NumIssues

\* the POST of the fourth template is outstanding after two earlier failures
FourthPostOutstanding ==
    /\ pc = "await_create"
    /\ Len(Posts) = 4
    /\ Len(failed) = 2
    /\ Len(created) = 1

(* C7: when the service has answered every creation POST of a run with a 2xx   *)
(* body, the batch ends with six entries in created and none in failed; each   *)
(* success result carries the key and id of its own response, each entry of    *)
(* created the key of its response, and every browse URL printed is the        *)
(* normalized base URL followed by /browse/ and that key.                      *)
AllAcceptedGivesSixWithKeys ==
    /\ (last_resp.kind = "ok" /\ ~crashed) =>
          /\ result.success
          /\ result.key = Last(answers).key
          /\ result.id = Last(answers).id
          /\ CreatedKey(Last(created)) = Last(answers).key
    /\ (Exited /\ ReachedLoop /\ RejectedSet = {}) =>
          /\ Len(created) = NumIssues
          /\ failed = <<>>
          /\ \A k \in 1..NumIssues :
                /\ CreatedKey(created[k]) = answers[k].key
                /\ script = "v2" =>
                      created[k].url = NormalizedBase \o <<"/", "browse", "/">> \o answers[k].key
          /\ stdout_urls # <<>>
          /\ \A n \in 1..Len(stdout_urls) :
                \E k \in 1..NumIssues :
                   stdout_urls[n] = NormalizedBase \o <<"/", "browse", "/">> \o answers[k].key
          /\ \A k \in 1..NumIssues :
                stdout_urls[Len(stdout_urls) - NumIssues + k]
                   = NormalizedBase \o <<"/", "browse", "/">> \o answers[k].key

\* a second run in which all six creations were accepted, so that the keys are
\* BB-7 .. BB-12
SecondRunAllAccepted ==
    /\ Exited
    /\ run = 2
    /\ RejectedSet = {}
    /\ Len(created) = NumIssues
    /\ answers[1].key = <<"B", "B", "-", "7">>
    /\ CreatedKey(created[NumIssues]) = <<"B", "B", "-", "1", "2">>

(* C8: when the configured base URL ends with a slash, the URL of every        *)
(* request of the run and every browse URL is the base without its trailing    *)
(* slashes followed by the path, so none has a double slash before /rest/ or   *)
(* /browse/.                                                                   *)
TrailingSlashNormalized ==
    (env.JIRA_URL.val # <<>> /\ Last(env.JIRA_URL.val) = "/") =>
        /\ \A k \in 1..Len(requests) :
              /\ IsPrefix(NormalizedBase \o <<"/", "rest", "/">>, requests[k].url)
              /\ ~IsInfix(<<"/", "/", "rest">>, requests[k].url)
        /\ \A k \in 1..Len(stdout_urls) :
              /\ IsPrefix(NormalizedBase \o <<"/", "browse", "/">>, stdout_urls[k])
              /\ ~IsInfix(<<"/", "/", "browse">>, stdout_urls[k])
        /\ script = "v2" =>
              \A k \in 1..Len(created) :
                 /\ IsPrefix(NormalizedBase \o <<"/", "browse", "/">>, created[k].url)
                 /\ ~IsInfix(<<"/", "/", "browse">>, created[k].url)

\* the base URL https://x.atlassian.net/ was configured, the probe and a POST
\* were issued and a browse URL was printed
TrailingSlashRunDone ==
    /\ env.JIRA_URL.val = <<Origin, "/">>
    /\ Exited
    /\ Len(Gets) = 1
    /\ Len(Posts) = NumIssues
    /\ stdout_urls # <<>>
    /\ requests[2].url = <<Origin, "/", "rest", "/", "api", "/", "2", "/", "issue">>

(* C9: the batch is not idempotent.  When every run so far reached its summary *)
(* and the service accepted every creation POST, each run issued six POSTs and *)
(* added six issues: after two runs twelve POSTs were issued and the service   *)
(* holds twelve issues.                                                        *)
RerunCreatesAgain ==
    (Exited /\ summaries = run /\ service = posts_total) =>
        /\ posts_total = run * NumIssues
        /\ service = run * NumIssues
        /\ run = 2 => (posts_total = 12 /\ service = 12)

\* two complete runs, every creation accepted
TwelveIssuesAfterTwoRuns ==
    /\ Exited
    /\ run = 2
    /\ summaries = 2
    /\ service = 12
    /\ posts_total = 12

(* C10: in the v2 script the probe GET is issued once, after the configuration *)
(* check and before any creation POST; when check_project_exists returns       *)
(* False the process ends with a non-zero status and issues no creation POST.  *)
ProbeOnceBeforeAnyPost ==
    script = "v2" =>
        /\ Len(Gets) <= 1
        /\ pc = "start" => requests = <<>>
        /\ requests # <<>> => (requests[1].method = "GET" /\ ~ConfigAbsent)
        /\ pc \in {"await_probe", "loop", "await_create"} => Len(Gets) = 1
        /\ (Exited /\ ~ConfigAbsent) => Len(Gets) = 1
        /\ Posts # <<>> => project_ok = <<TRUE>>
        /\ project_ok = <<FALSE>> =>
              /\ Exited
              /\ exit_status # <<>> /\ exit_status # <<0>>
              /\ Posts = <<>>

\* the probe was answered with an HTTP error and the process has ended
ProbeRejectedExited ==
    /\ script = "v2"
    /\ Exited
    /\ probe_resp.kind = "http"
    /\ project_ok = <<FALSE>>
    /\ Len(requests) = 1

(* C11: a run with complete configuration proceeds to completion whatever the  *)
(* outcome of each external call, probe or creation POST: it never ends by an  *)
(* uncaught exception, and when it has ended it did so at the final summary    *)
(* report or at the explicit exit that follows a probe returning False.        *)
RunEndsWithoutCrash ==
    ~ConfigAbsent =>
        /\ ~crashed
        /\ Exited =>
              \/ ReachedLoop /\ Len(answers) = NumIssues /\ summaries >= 1
              \/ project_ok = <<FALSE>> /\ exit_status = <<1>>

=============================================================================
